---- MODULE Spec2Model ----
(***************************************************************************)
(* AiKiddo student API: the HTTP handlers of api/students.py, the          *)
(* data-access functions of db/crud.py, the per-request session of         *)
(* db/provider.py and the tables of db/models.py.                          *)
(*                                                                         *)
(* Storage is a relational database that enforces primary and foreign     *)
(* keys and makes each committed transaction visible atomically.  Rows    *)
(* are records, tables are sets of rows.  Each request runs in its own    *)
(* worker; the steps of concurrent requests interleave.                   *)
(***************************************************************************)
EXTENDS Integers, Sequences, FiniteSets, TLC

\* ---------------------------------------------------------------- bounds
\* Number of identifiers uuid4 hands out in one run.
MaxIds == 3
\* Longest list of items in one add-children request body.
MaxBatch == 2
\* Number of requests received in one run.
MaxRequests == 3

\* The workers that handle requests concurrently.
Workers == {1, 2}

\* ---------------------------------------------------------------- values
\* A nullable foreign key column holding no value.
NULL == 0

\* An identifier no create ever returned (a client-made uuid).
NoSuchId == MaxIds + 1

\* Request bodies accepted by StudentBaseSchema.
StudentBodies ==
    { [name |-> "Ana", gender |-> "Female", birthdate |-> "2015-03-02",
       hair_color |-> "Black", hair_type |-> "Curly"] }

\* Request bodies accepted by InterestBaseSchema.
InterestBodies == { [interest |-> "Astronomy"] }

\* Request bodies accepted by PetBaseSchema (pet_breed is optional).
PetBodies == { [pet_type |-> "Dog", pet_breed |-> "None", pet_name |-> "Rex"] }

\* Request bodies accepted by LessonBaseSchema.
LessonBodies == { [content |-> "Basic Algebra", date |-> "2023-04-05T09:00:00"] }

AddOps == {"create_student_interests", "create_student_pets", "create_student_lessons"}

BodiesOf(op) ==
    CASE op = "create_student_interests" -> InterestBodies
      [] op = "create_student_pets"      -> PetBodies
      [] op = "create_student_lessons"   -> LessonBodies

\* Lists of at most MaxBatch items.
Batches(S) == UNION { [1..n -> S] : n \in 0..MaxBatch }

\* ---------------------------------------------------------------- state
VARIABLES
    students,     \* table students
    interests,    \* table interests
    pets,         \* table pets
    lessons,      \* table lessons
    nextId,       \* number of identifiers uuid4 has handed out, plus one
    open,         \* the sessions SessionLocal created and close has not closed
    pc,           \* per worker: where its request stands
    req,          \* per worker: the request it handles
    db,           \* per worker: the session get_db yielded (NULL: none)
    new,          \* per session: the objects added and not yet flushed
    db_student,   \* per worker: the handler's db_student ({}: None)
    resp,         \* per worker: the response of its request (status 0: none yet)
    known,        \* student ids clients have received in a response
    missing,      \* per worker: the request's student was not stored on receipt
    served        \* number of requests received

vars == <<students, interests, pets, lessons, nextId, open, pc, req, db, new,
          db_student, resp, known, missing, served>>

tables == <<students, interests, pets, lessons>>

Sessions == Workers

NoReq == [op |-> "none"]
NoResp == [status |-> 0, detail |-> "", body |-> {}]

Init ==
    /\ students = {}
    /\ interests = {}
    /\ pets = {}
    /\ lessons = {}
    /\ nextId = 1
    /\ open = {}
    /\ pc = [w \in Workers |-> "idle"]
    /\ req = [w \in Workers |-> NoReq]
    /\ db = [w \in Workers |-> NULL]
    /\ new = [s \in Sessions |-> <<>>]
    /\ db_student = [w \in Workers |-> {}]
    /\ resp = [w \in Workers |-> NoResp]
    /\ known = {}
    /\ missing = [w \in Workers |-> FALSE]
    /\ served = 0

\* ---------------------------------------------------------------- models.py
StudentIds == { r.id : r \in students }

\* models.Student(**student.model_dump()): the id column is unset until flush.
Student(b) ==
    [id |-> NULL, name |-> b.name, gender |-> b.gender, birthdate |-> b.birthdate,
     hair_color |-> b.hair_color, hair_type |-> b.hair_type]

\* models.Interest(student_id=student_id, **interest_data.model_dump())
Interest(student_id, b) ==
    [id |-> NULL, student_id |-> student_id, interest |-> b.interest]

\* models.Pet(student_id=student_id, **pet_data.model_dump())
Pet(student_id, b) ==
    [id |-> NULL, student_id |-> student_id, pet_type |-> b.pet_type,
     pet_breed |-> b.pet_breed, pet_name |-> b.pet_name]

\* models.Lesson(student_id=student_id, **lesson_data.model_dump())
Lesson(student_id, b) ==
    [id |-> NULL, student_id |-> student_id, content |-> b.content, date |-> b.date]

\* The loop's object built without student_id=student_id.
NewChildNoOwner(op, student_id, b) ==
    CASE op = "create_student_interests" -> Interest(NULL, b)
      [] op = "create_student_pets"      -> Pet(NULL, b)
      [] op = "create_student_lessons"   -> Lesson(NULL, b)

\* The object one loop iteration of add_student_interests/pets/lessons builds.
NewChild(op, student_id, b) ==
    CASE op = "create_student_interests" -> Interest(student_id, b)
      [] op = "create_student_pets"      -> Pet(student_id, b)
      [] op = "create_student_lessons"   -> Lesson(student_id, b)

\* The table an object is mapped to (__tablename__).
IsStudent(o)  == "name" \in DOMAIN o
IsInterest(o) == "interest" \in DOMAIN o
IsPet(o)      == "pet_name" \in DOMAIN o
IsLesson(o)   == "content" \in DOMAIN o

\* default=str(uuid.uuid4()) without the lambda: one value for every row.
uuid4_once(n, i) == 1

\* default=lambda: str(uuid.uuid4()): the i-th identifier drawn when n - 1
\* have been handed out.  uuid4 never repeats a value.
uuid4(n, i) == n + i - 1

\* A flush that sends only the first pending object.
FlushFirst(objs) ==
    { [objs[i] EXCEPT !.id = uuid4(nextId, i)] : i \in 1..(IF Len(objs) > 0 THEN 1 ELSE 0) }

\* The rows an INSERT of the pending objects sends, ids filled in by default.
FlushRows(objs) ==
    { [objs[i] EXCEPT !.id = uuid4(nextId, i)] : i \in 1..Len(objs) }

\* A student_id column without its ForeignKey: nothing is enforced.
ForeignKeyOff(r, rows) == TRUE

\* ForeignKey('students.id') on a nullable column: NULL, or a student that is
\* stored or inserted by the same flush.
ForeignKeyOk(r, rows) ==
    \/ IsStudent(r)
    \/ r.student_id = NULL
    \/ r.student_id \in StudentIds \cup { x.id : x \in { y \in rows : IsStudent(y) } }

\* primary_key=True: no stored row of the same table has the id.
PrimaryKeyOk(r) ==
    /\ IsStudent(r)  => r.id \notin StudentIds
    /\ IsInterest(r) => r.id \notin { x.id : x \in interests }
    /\ IsPet(r)      => r.id \notin { x.id : x \in pets }
    /\ IsLesson(r)   => r.id \notin { x.id : x \in lessons }

\* Whether the database accepts the flush of these rows.
IntegrityOk(rows) ==
    \A r \in rows : ForeignKeyOk(r, rows) /\ PrimaryKeyOk(r)

\* relationship("Interest", back_populates="student") and its siblings carry
\* no delete cascade: deleting the parent de-associates the children, their
\* student_id is set to NULL and the rows stay.
Deassociate(rows, student_id) ==
    { IF r.student_id = student_id THEN [r EXCEPT !.student_id = NULL] ELSE r
      : r \in rows }

\* ---------------------------------------------------------------- schemas.py
InterestSchema(r) == [id |-> r.id, interest |-> r.interest]

PetSchema(r) ==
    [id |-> r.id, pet_type |-> r.pet_type, pet_breed |-> r.pet_breed,
     pet_name |-> r.pet_name]

\* No endpoint stores lesson questions: a lesson's questions are empty.
LessonSchema(r) ==
    [id |-> r.id, content |-> r.content, date |-> r.date, questions |-> {}]

\* StudentSchema read from a Student object (from_attributes): the columns the
\* object holds, and the three relationships loaded from the tables.
StudentSchema(s) ==
    [id |-> s.id, name |-> s.name, gender |-> s.gender, birthdate |-> s.birthdate,
     hair_color |-> s.hair_color, hair_type |-> s.hair_type,
     interests |-> { InterestSchema(r) : r \in { x \in interests : x.student_id = s.id } },
     pets      |-> { PetSchema(r) : r \in { x \in pets : x.student_id = s.id } },
     lessons   |-> { LessonSchema(r) : r \in { x \in lessons : x.student_id = s.id } }]

\* ---------------------------------------------------------------- crud.py
\* db.query(models.Student).filter(models.Student.id == student_id).first()
get_student_by_id(student_id) == { r \in students : r.id = student_id }

\* add_student_interests/pets/lessons: one loop iteration, db.add(obj).
session_add(objs, obj) == Append(objs, obj)

\* remove_student returning True without its `if db_student` test.
remove_student_always(found) == TRUE

\* remove_student's result: True when the query found the student.
remove_student_result(found) == found # {}

\* ---------------------------------------------------------------- provider.py
\* One module-level session handed to every request.
SharedSession == CHOOSE s \in Sessions : \A t \in Sessions : s <= t

\* SessionLocal(): a session object of its own for each call.
SessionLocal == CHOOSE s \in Sessions \ open : \A t \in Sessions \ open : s <= t

\* ---------------------------------------------------------------- students.py
\* raise HTTPException(status_code=404, detail="Student not found")
NotFound == [status |-> 404, detail |-> "Student not found", body |-> {}]

\* return {"detail": "Student removed"}
Removed == [status |-> 200, detail |-> "Student removed", body |-> {}]

\* An exception no handler catches (a storage error, a response that fails
\* validation): the generic server error.
ServerError == [status |-> 500, detail |-> "Internal Server Error", body |-> {}]

\* response_model=Optional[StudentSchema]: None is answered as 200 null.
serialize_optional(found) ==
    [status |-> 200, detail |-> "", body |-> { StudentSchema(r) : r \in found }]

\* response_model=StudentSchema: the returned object is validated against the
\* schema; None is no StudentSchema.
serialize_response(found) ==
    IF found = {} THEN ServerError
    ELSE [status |-> 200, detail |-> "",
          body |-> { StudentSchema(r) : r \in found }]

\* ---------------------------------------------------------------- requests
\* A client names a student by an id it received, or by one it made up.
Requests ==
    { [op |-> "create_student", student |-> b] : b \in StudentBodies }
    \cup { [op |-> o, student_id |-> s] :
             o \in {"read_student", "delete_student"}, s \in known \cup {NoSuchId} }
    \cup UNION { { [op |-> o, student_id |-> s, items |-> l] :
                     s \in known \cup {NoSuchId}, l \in Batches(BodiesOf(o)) }
                 : o \in AddOps }

\* Bodies the schemas reject: a StudentBase without its name, an Interest
\* without its interest, a Pet without its pet_name, a Lesson whose date is no
\* datetime.
BadStudentBodies ==
    { [gender |-> "Female", birthdate |-> "2015-03-02", hair_color |-> "Black",
       hair_type |-> "Curly"] }

BadBodiesOf(op) ==
    CASE op = "create_student_interests" -> { [hobby |-> "Astronomy"] }
      [] op = "create_student_pets"      -> { [pet_type |-> "Dog"] }
      [] op = "create_student_lessons"   ->
           { [content |-> "Basic Algebra", date |-> "yesterday"] }

\* Lists with a bad item in it: alone, after a good item, before a good item.
InvalidLists(op) ==
    { <<b>> : b \in BadBodiesOf(op) }
    \cup { <<g, b>> : g \in BodiesOf(op), b \in BadBodiesOf(op) }
    \cup { <<b, g>> : g \in BodiesOf(op), b \in BadBodiesOf(op) }

\* Requests whose body fails validation: a bad StudentBase, or a list with a
\* bad item in it.
InvalidRequests ==
    { [op |-> "create_student", student |-> b] : b \in BadStudentBodies }
    \cup UNION { { [op |-> o, student_id |-> s, items |-> l] :
                     s \in known \cup {NoSuchId}, l \in InvalidLists(o) }
                 : o \in AddOps }

\* Strings that parse as a date, and as a datetime.
Dates == { "2015-03-02" }
Datetimes == { "2023-04-05T09:00:00" }

\* StudentBaseSchema: five required fields, birthdate a date.
StudentBaseSchemaOk(b) ==
    /\ {"name", "gender", "birthdate", "hair_color", "hair_type"} \subseteq DOMAIN b
    /\ b.birthdate \in Dates

\* InterestBaseSchema, PetBaseSchema (pet_breed optional), LessonBaseSchema
\* (date a datetime).
ItemSchemaOk(op, b) ==
    CASE op = "create_student_interests" -> "interest" \in DOMAIN b
      [] op = "create_student_pets"      -> {"pet_type", "pet_name"} \subseteq DOMAIN b
      [] op = "create_student_lessons"   ->
           {"content", "date"} \subseteq DOMAIN b /\ b.date \in Datetimes

\* A handler whose body parameter is a plain dict or list: nothing is rejected.
AcceptAnything(r) == TRUE

\* The body parameter of the handler, validated against its annotation
\* before the handler is called.
RequestValid(r) ==
    CASE r.op = "create_student" -> StudentBaseSchemaOk(r.student)
      [] r.op \in AddOps         -> \A i \in 1..Len(r.items) : ItemSchemaOk(r.op, r.items[i])
      [] OTHER                   -> TRUE

\* The 422 a body that fails validation is answered with.
Unprocessable == [status |-> 422, detail |-> "Unprocessable Entity", body |-> {}]

\* Identifiers the request will draw from uuid4 if it succeeds.
IdsNeeded(r) ==
    CASE r.op = "create_student" -> 1
      [] r.op \in AddOps         -> Len(r.items)
      [] OTHER                   -> 0

\* Identifiers the requests in flight have yet to draw.
Pending(w) ==
    IF pc[w] \in {"create_student"} \cup AddOps THEN IdsNeeded(req[w]) ELSE 0

RECURSIVE SumPending(_)
SumPending(S) ==
    IF S = {} THEN 0
    ELSE LET w == CHOOSE x \in S : TRUE IN Pending(w) + SumPending(S \ {w})

\* ---------------------------------------------------------------- actions
\* A request arrives and goes to the first idle worker; Depends(get_db) runs
\* get_db up to its yield, db = SessionLocal(), and the body is validated: the
\* handler is entered, or the request is answered 422 and the handler never
\* called.
get_db(w) ==
    /\ pc[w] = "idle"
    /\ \A v \in Workers : v < w => pc[v] # "idle"
    /\ served < MaxRequests
    /\ \E r \in Requests \cup InvalidRequests :
         /\ (nextId - 1) + SumPending(Workers) + IdsNeeded(r) <= MaxIds
         /\ req' = [req EXCEPT ![w] = r]
         /\ missing' = [missing EXCEPT ![w] =
                          r.op # "create_student" /\ get_student_by_id(r.student_id) = {}]
         /\ IF RequestValid(r)
            THEN /\ pc' = [pc EXCEPT ![w] = r.op]
                 /\ UNCHANGED resp
            ELSE /\ pc' = [pc EXCEPT ![w] = "close"]
                 /\ resp' = [resp EXCEPT ![w] = Unprocessable]
    /\ LET s == SessionLocal IN
         /\ db' = [db EXCEPT ![w] = s]
         /\ open' = open \cup {s}
         /\ new' = [new EXCEPT ![s] = <<>>]
    /\ served' = served + 1
    /\ UNCHANGED <<tables, nextId, db_student, known>>

\* create_student -> add_student: db.add, db.commit, db.refresh, return.
create_student(w) ==
    /\ pc[w] = "create_student"
    /\ LET objs == session_add(new[db[w]], Student(req[w].student))
           rows == FlushRows(objs)
       IN IF IntegrityOk(rows)
          THEN /\ students'  = students \cup { r \in rows : IsStudent(r) }
               /\ interests' = interests \cup { r \in rows : IsInterest(r) }
               /\ pets'      = pets \cup { r \in rows : IsPet(r) }
               /\ lessons'   = lessons \cup { r \in rows : IsLesson(r) }
               /\ nextId' = nextId + Len(objs)
               /\ db_student' = [db_student EXCEPT ![w] =
                    { [objs[Len(objs)] EXCEPT !.id = uuid4(nextId, Len(objs))] }]
               /\ pc' = [pc EXCEPT ![w] = "respond"]
               /\ UNCHANGED resp
          ELSE /\ resp' = [resp EXCEPT ![w] = ServerError]
               /\ pc' = [pc EXCEPT ![w] = "close"]
               /\ UNCHANGED <<tables, nextId, db_student>>
    /\ new' = [new EXCEPT ![db[w]] = <<>>]
    /\ UNCHANGED <<open, req, db, known, missing, served>>

\* read_student: the query, and the 404 when it finds nothing.
read_student(w) ==
    /\ pc[w] = "read_student"
    /\ LET found == get_student_by_id(req[w].student_id) IN
         /\ db_student' = [db_student EXCEPT ![w] = found]
         /\ IF found = {}
            THEN /\ resp' = [resp EXCEPT ![w] = NotFound]
                 /\ pc' = [pc EXCEPT ![w] = "close"]
            ELSE /\ pc' = [pc EXCEPT ![w] = "respond"]
                 /\ UNCHANGED resp
    /\ UNCHANGED <<tables, nextId, open, req, db, new, known, missing, served>>

\* delete_student -> remove_student: the query; False, and the 404, when it
\* finds nothing.
remove_student_query(w) ==
    /\ pc[w] = "delete_student"
    /\ LET found == get_student_by_id(req[w].student_id) IN
         /\ db_student' = [db_student EXCEPT ![w] = found]
         /\ IF remove_student_result(found)
            THEN /\ pc' = [pc EXCEPT ![w] = "remove_student"]
                 /\ UNCHANGED resp
            ELSE /\ resp' = [resp EXCEPT ![w] = NotFound]
                 /\ pc' = [pc EXCEPT ![w] = "close"]
    /\ UNCHANGED <<tables, nextId, open, req, db, new, known, missing, served>>

\* remove_student: db.delete(db_student); db.commit(); return True.  One
\* transaction: the flush loads the student's children as they are stored
\* now, de-associates them and deletes the student row.  A row that another
\* request deleted since the query matches nothing, which the ORM only warns
\* about: the call still returns True.
remove_student_commit(w) ==
    /\ pc[w] = "remove_student"
    /\ LET student_id == req[w].student_id IN
         /\ students'  = { r \in students : r.id # student_id }
         /\ interests' = Deassociate(interests, student_id)
         /\ pets'      = Deassociate(pets, student_id)
         /\ lessons'   = Deassociate(lessons, student_id)
    /\ resp' = [resp EXCEPT ![w] = Removed]
    /\ pc' = [pc EXCEPT ![w] = "close"]
    /\ UNCHANGED <<nextId, open, req, db, new, db_student, known, missing, served>>

\* add_student_interests/pets/lessons: one iteration of the for loop.
add_loop(w) ==
    /\ pc[w] \in AddOps
    /\ Len(new[db[w]]) < Len(req[w].items)
    /\ new' = [new EXCEPT ![db[w]] =
                 session_add(@, NewChild(req[w].op, req[w].student_id,
                                         req[w].items[Len(@) + 1]))]
    /\ UNCHANGED <<tables, nextId, open, pc, req, db, db_student, resp, known,
                   missing, served>>

\* add_student_interests/pets/lessons: db.commit() after the loop.  One
\* transaction: every pending row is inserted, or the commit raises and none is.
add_commit(w) ==
    /\ pc[w] \in AddOps
    /\ Len(new[db[w]]) >= Len(req[w].items)
    /\ LET rows == FlushRows(new[db[w]])
       IN IF IntegrityOk(rows)
          THEN /\ students'  = students \cup { r \in rows : IsStudent(r) }
               /\ interests' = interests \cup { r \in rows : IsInterest(r) }
               /\ pets'      = pets \cup { r \in rows : IsPet(r) }
               /\ lessons'   = lessons \cup { r \in rows : IsLesson(r) }
               /\ nextId' = nextId + Len(new[db[w]])
               /\ pc' = [pc EXCEPT ![w] = "get_student_by_id"]
               /\ UNCHANGED resp
          ELSE /\ resp' = [resp EXCEPT ![w] = ServerError]
               /\ pc' = [pc EXCEPT ![w] = "close"]
               /\ UNCHANGED <<tables, nextId>>
    /\ new' = [new EXCEPT ![db[w]] = <<>>]
    /\ UNCHANGED <<open, req, db, db_student, known, missing, served>>

\* create_student_interests/pets/lessons: db_student = get_student_by_id(...).
get_after_add(w) ==
    /\ pc[w] = "get_student_by_id"
    /\ db_student' = [db_student EXCEPT ![w] = get_student_by_id(req[w].student_id)]
    /\ pc' = [pc EXCEPT ![w] = "respond"]
    /\ UNCHANGED <<tables, nextId, open, req, db, new, resp, known, missing, served>>

\* return db_student: the response is built from the object and its
\* relationships, read through the session.
respond(w) ==
    /\ pc[w] = "respond"
    /\ resp' = [resp EXCEPT ![w] = serialize_response(db_student[w])]
    /\ pc' = [pc EXCEPT ![w] = "close"]
    /\ UNCHANGED <<tables, nextId, open, req, db, new, db_student, known, missing,
                   served>>

\* get_db after its yield: finally db.close().  The response leaves, and the
\* client learns the id of the student in it.
close(w) ==
    /\ pc[w] = "close"
    /\ open' = open \ {db[w]}
    /\ new' = [new EXCEPT ![db[w]] = <<>>]
    /\ db' = [db EXCEPT ![w] = NULL]
    /\ known' = known \cup { b.id : b \in resp[w].body }
    /\ pc' = [pc EXCEPT ![w] = "idle"]
    /\ req' = [req EXCEPT ![w] = NoReq]
    /\ resp' = [resp EXCEPT ![w] = NoResp]
    /\ db_student' = [db_student EXCEPT ![w] = {}]
    /\ missing' = [missing EXCEPT ![w] = FALSE]
    /\ UNCHANGED <<tables, nextId, served>>

\* One step of the request a worker handles.
Handle(w) ==
    \/ create_student(w)
    \/ read_student(w)
    \/ remove_student_query(w)
    \/ remove_student_commit(w)
    \/ add_loop(w)
    \/ add_commit(w)
    \/ get_after_add(w)
    \/ respond(w)
    \/ close(w)

Next == \E w \in Workers : get_db(w) \/ Handle(w)

Spec == Init /\ [][Next]_vars

\* Each request runs to completion: a worker that can take a step takes it.
FairSpec == Spec /\ \A w \in Workers : WF_vars(Handle(w))

\* ---------------------------------------------------------------- properties
children == interests \cup pets \cup lessons

\* The ids of the rows of a table.
RowIds(T) == { r.id : r \in T }

\* The rows of a table that belong to a student.
OwnedBy(T, student_id) == { r \in T : r.student_id = student_id }

\* The request's body is one the schema of its endpoint accepts.
WellFormed(r) ==
    CASE r.op = "create_student" -> r.student \in StudentBodies
      [] r.op \in AddOps         -> \A i \in 1..Len(r.items) : r.items[i] \in BodiesOf(r.op)
      [] OTHER                   -> TRUE

\* The step is one of worker w's request, leaving the place `at`.
Leaves(w, at) == pc[w] \in at /\ pc'[w] # pc[w]

\* C1: a successful DELETE of student S leaves S absent and none of the
\* Interest, Pet and Lesson rows S owned in storage.
C1_DeleteCascades ==
    [][\A w \in Workers :
         (Leaves(w, {"remove_student"}) /\ resp'[w].status = 200) =>
            LET S == req[w].student_id IN
              /\ S \notin StudentIds'
              /\ RowIds(OwnedBy(interests, S)) \cap RowIds(interests') = {}
              /\ RowIds(OwnedBy(pets, S)) \cap RowIds(pets') = {}
              /\ RowIds(OwnedBy(lessons, S)) \cap RowIds(lessons') = {}]_vars

\* C6: in every reachable state each Interest, Pet and Lesson row has a
\* student_id that is the id of exactly one stored Student.
C6_NoOrphans ==
    \A r \in children :
        Cardinality({ s \in students : s.id = r.student_id }) = 1

\* C10: no step changes a row that is stored before and after it, and the
\* steps of a GET change no table.
C10_Immutable ==
    [][/\ \A r \in students  : r.id \in RowIds(students')  => r \in students'
       /\ \A r \in interests : r.id \in RowIds(interests') => r \in interests'
       /\ \A r \in pets      : r.id \in RowIds(pets')      => r \in pets'
       /\ \A r \in lessons   : r.id \in RowIds(lessons')   => r \in lessons'
       /\ \A w \in Workers :
            (req[w].op = "read_student" /\ pc'[w] # pc[w]) => tables' = tables]_vars

\* C2: GET and DELETE of a student id that is not stored answer 404 "Student
\* not found" (remove_student returning False) and change no table; DELETE
\* answers 200 "Student removed" exactly when its query found the student.
C2_NotFound ==
    [][\A w \in Workers :
         /\ Leaves(w, {"read_student", "delete_student"}) =>
              IF req[w].student_id \in RowIds(students)
              THEN /\ resp'[w].status = 0
                   /\ pc'[w] = IF req[w].op = "read_student" THEN "respond"
                                                            ELSE "remove_student"
              ELSE /\ resp'[w] = [status |-> 404, detail |-> "Student not found",
                                  body |-> {}]
                   /\ pc'[w] = "close"
                   /\ tables' = tables
         /\ (req[w].op = "delete_student" /\ resp[w].status = 0
               /\ resp'[w].status # 0 /\ pc[w] # "delete_student") =>
              /\ pc[w] = "remove_student"
              /\ resp'[w] = [status |-> 200, detail |-> "Student removed",
                             body |-> {}]]_vars

\* C2's case: a DELETE of a student that an earlier DELETE removed answers 404.
C2_Witness ==
    \E w \in Workers :
        /\ req[w].op = "delete_student"
        /\ req[w].student_id \in known
        /\ missing[w]
        /\ resp[w].status = 404

\* The columns of a student row other than its id.
Columns(r) ==
    [name |-> r.name, gender |-> r.gender, birthdate |-> r.birthdate,
     hair_color |-> r.hair_color, hair_type |-> r.hair_type]

\* C3: POST /students/ adds exactly one Student row, with the submitted fields
\* and an id no stored row has, and changes nothing else; its response is that
\* student with empty interests, pets and lessons; a GET returns the stored
\* student.
C3_CreateStudent ==
    [][\A w \in Workers :
         /\ Leaves(w, {"create_student"}) =>
              /\ interests' = interests /\ pets' = pets /\ lessons' = lessons
              /\ \E r \in students' :
                   /\ r \notin students
                   /\ students' = students \cup {r}
                   /\ r.id \notin RowIds(students) \cup RowIds(children)
                   /\ Columns(r) = req[w].student
                   /\ db_student'[w] = {r}
              /\ pc'[w] = "respond"
         /\ (Leaves(w, {"respond"}) /\ req[w].op = "create_student") =>
              /\ resp'[w].status = 200
              /\ \E b \in resp'[w].body :
                   /\ resp'[w].body = {b}
                   /\ b.id \in RowIds(db_student[w])
                   /\ Columns(b) = req[w].student
                   /\ b.interests = {} /\ b.pets = {} /\ b.lessons = {}
         /\ Leaves(w, {"read_student"}) =>
              db_student'[w] = { r \in students : r.id = req[w].student_id }
         /\ (Leaves(w, {"respond"}) /\ req[w].op = "read_student") =>
              /\ resp'[w].status = 200
              /\ \E b \in resp'[w].body, r \in db_student[w] :
                   /\ resp'[w].body = {b}
                   /\ b.id = r.id /\ b.id = req[w].student_id
                   /\ Columns(b) = Columns(r)]_vars

\* C3's case: a student created after other rows were stored, in its response.
C3_Witness ==
    \E w \in Workers :
        /\ req[w].op = "create_student"
        /\ resp[w].status = 200
        /\ Cardinality(students) = 2
        /\ children # {}

\* The table an add-children endpoint writes.
TableOf(op) ==
    CASE op = "create_student_interests" -> interests
      [] op = "create_student_pets"      -> pets
      [] op = "create_student_lessons"   -> lessons

\* The fields of a child row that came from the request body.
BodyOf(op, r) ==
    CASE op = "create_student_interests" -> [interest |-> r.interest]
      [] op = "create_student_pets"      ->
           [pet_type |-> r.pet_type, pet_breed |-> r.pet_breed, pet_name |-> r.pet_name]
      [] op = "create_student_lessons"   -> [content |-> r.content, date |-> r.date]

\* The rows a step adds to the table of an add-children endpoint.
Added(op) == { r \in TableOf(op)' : r.id \notin RowIds(TableOf(op)) }

\* C4: a successful add of n items for student S stores the rows S had plus n
\* new rows of S, one per item with the item's fields, each with an id no other
\* row has; every 200 response carrying a student lists exactly the interests,
\* pets and lessons stored for that student.
C4_AddChildren ==
    [][\A w \in Workers :
         /\ (Leaves(w, AddOps) /\ pc'[w] = "get_student_by_id") =>
              LET op == req[w].op
                  n  == Len(req[w].items)
              IN /\ TableOf(op) \subseteq TableOf(op)'
                 /\ Cardinality(Added(op)) = n
                 /\ Cardinality(RowIds(Added(op))) = n
                 /\ RowIds(Added(op)) \cap (RowIds(students) \cup RowIds(children)) = {}
                 /\ \A r \in Added(op) : r.student_id = req[w].student_id
                 /\ \A b \in BodiesOf(op) :
                      Cardinality({ r \in Added(op) : BodyOf(op, r) = b })
                        = Cardinality({ i \in 1..n : req[w].items[i] = b })
                 /\ \A o \in AddOps \ {op} : TableOf(o)' = TableOf(o)
                 /\ students' = students
         /\ (Leaves(w, {"respond"}) /\ resp'[w].status = 200) =>
              \A b \in resp'[w].body :
                 /\ req[w].op = "create_student" \/ b.id = req[w].student_id
                 /\ b.interests = { [id |-> r.id, interest |-> r.interest]
                                    : r \in OwnedBy(interests, b.id) }
                 /\ b.pets = { [id |-> r.id, pet_type |-> r.pet_type,
                                pet_breed |-> r.pet_breed, pet_name |-> r.pet_name]
                               : r \in OwnedBy(pets, b.id) }
                 /\ { [id |-> l.id, content |-> l.content, date |-> l.date]
                      : l \in b.lessons }
                    = { [id |-> r.id, content |-> r.content, date |-> r.date]
                        : r \in OwnedBy(lessons, b.id) }]_vars

\* C4's case: two interests added in one request, both in its response.
C4_Witness ==
    \E w \in Workers :
        /\ req[w].op = "create_student_interests"
        /\ Len(req[w].items) = 2
        /\ resp[w].status = 200
        /\ \E b \in resp[w].body : Cardinality(b.interests) = 2

\* C5: an add-children request with a list the schema accepts, for a student
\* id that was not stored when the request arrived, never gets a 200 response
\* but a server error, and no Interest, Pet or Lesson row of that id is stored.
C5_MissingParent ==
    \A w \in Workers :
        (req[w].op \in AddOps /\ missing[w] /\ WellFormed(req[w])) =>
            /\ resp[w].status \in {0, 500}
            /\ pc[w] = "close" => resp[w].status = 500
            /\ OwnedBy(children, req[w].student_id) = {}

\* C5's case: the empty list sent for a missing student ended in a server error.
C5_Witness ==
    \E w \in Workers :
        /\ req[w].op \in AddOps
        /\ missing[w]
        /\ req[w].items = <<>>
        /\ resp[w].status = 500

\* A request in flight: past get_db's yield, before its close.
InHandler(w) == pc[w] # "idle"

\* Every request in its handler holds an open session, no two requests hold
\* the same one, every open session is held by a request, and no session is
\* open once no request is in flight.
SessionPerRequest ==
    /\ \A w \in Workers : IF InHandler(w) THEN db[w] \in open ELSE db[w] = NULL
    /\ \A w, v \in Workers : (w # v /\ InHandler(w) /\ InHandler(v)) => db[w] # db[v]
    /\ \A s \in open : \E w \in Workers : InHandler(w) /\ db[w] = s
    /\ (\A w \in Workers : pc[w] = "idle") => open = {}

\* C7: each request has a session of its own, and every session opened is
\* closed when its request completes, whether it ends in a 200, a 404 or a
\* server error.
C7_SessionClosed ==
    /\ []SessionPerRequest
    /\ \A w \in Workers : InHandler(w) ~> (pc[w] = "idle")

\* C7's case: two requests in flight, each with its own open session, one
\* ending in a server error and one in a 404.
C7_Witness ==
    \E w, v \in Workers :
        /\ w # v
        /\ resp[w].status = 500 /\ resp[v].status = 404
        /\ db[w] \in open /\ db[v] \in open
        /\ db[w] # db[v]

\* The rows a step adds to any of the three child tables.
AddedChildren == { r \in children' : r.id \notin RowIds(children) }

\* C8: a step stores either no new child row or the whole list of one
\* add-children call; a call that fails at commit stores nothing.
C8_AllOrNothing ==
    [][/\ \/ AddedChildren = {}
          \/ \E w \in Workers :
               /\ Leaves(w, AddOps) /\ pc'[w] = "get_student_by_id"
               /\ Cardinality(AddedChildren) = Len(req[w].items)
               /\ AddedChildren = OwnedBy(Added(req[w].op), req[w].student_id)
       /\ \A w \in Workers :
            (Leaves(w, AddOps) /\ pc'[w] = "get_student_by_id") =>
                Cardinality(AddedChildren) = Len(req[w].items)
       /\ \A w \in Workers :
            (Leaves(w, AddOps) /\ pc'[w] = "close") =>
                /\ tables' = tables
                /\ resp'[w].status = 500]_vars

\* C8's case: a list of two items committed for a stored student while
\* another request is in its handler.
C8_Witness ==
    \E w, v \in Workers :
        /\ w # v /\ InHandler(v)
        /\ pc[w] = "get_student_by_id"
        /\ Len(req[w].items) = 2
        /\ Cardinality(OwnedBy(TableOf(req[w].op), req[w].student_id)) = 2

\* C9 as stated: add_student_interests/pets/lessons fail with a storage error
\* whenever the student is not stored, whatever the list.
C9_AlwaysFails ==
    [][\A w \in Workers :
         (Leaves(w, AddOps) /\ req[w].student_id \notin RowIds(students)) =>
            (pc'[w] = "close" /\ resp'[w].status = 500)]_vars

\* C9, amended: for a student that is not stored, the call fails with a
\* storage error when the list has an item, storing nothing; with the empty
\* list it returns normally, storing nothing.
C9_FailsUnlessEmpty ==
    [][\A w \in Workers :
         (Leaves(w, AddOps) /\ req[w].student_id \notin RowIds(students)) =>
            /\ tables' = tables
            /\ IF req[w].items # <<>>
               THEN pc'[w] = "close" /\ resp'[w].status = 500
               ELSE pc'[w] = "get_student_by_id" /\ resp'[w].status = 0]_vars

\* C9's case: the call returned normally for the empty list and a student
\* that is not stored.
C9_Witness ==
    \E w \in Workers :
        /\ req[w].op \in AddOps
        /\ pc[w] = "get_student_by_id"
        /\ req[w].items = <<>>
        /\ req[w].student_id \notin RowIds(students)

\* C11: a request whose body fails validation is answered 422 without its
\* handler being entered: from its arrival to its close no step of it changes
\* a table, draws an identifier, adds to its session or reads a student.
C11_ValidationFirst ==
    [][\A w \in Workers :
         /\ (pc'[w] # "idle" /\ ~WellFormed(req'[w])) =>
              /\ pc'[w] = "close"
              /\ resp'[w].status = 422
              /\ db_student'[w] = {}
              /\ new'[db'[w]] = <<>>
         /\ ((~WellFormed(req[w]) \/ ~WellFormed(req'[w])) /\ pc'[w] # pc[w]) =>
              /\ tables' = tables
              /\ nextId' = nextId]_vars

\* C11's case: a list with a bad item, sent for a stored student, answered 422.
C11_Witness ==
    \E w \in Workers :
        /\ req[w].op \in AddOps
        /\ ~WellFormed(req[w])
        /\ req[w].student_id \in RowIds(students)
        /\ resp[w].status = 422

====
